---- MODULE Spec2Model ----
(***************************************************************************)
(* SolPay402 backend (src/README.md, "Backend"): the payment-required      *)
(* middleware of the resource server and the PaymentFacilitator it calls,  *)
(* run by several concurrent HTTP requests against one Solana ledger.      *)
(*                                                                         *)
(* One request is handled in three steps, separated by the two network     *)
(* awaits of verifyAndSettlePayment:                                       *)
(*   await   --RequestWithoutPayment / RequestWithPayment-->               *)
(*   send    --SendRawTransaction--> confirm --ConfirmTransaction--> done  *)
(* Everything between two awaits runs in one turn of the event loop and is *)
(* one action.                                                             *)
(***************************************************************************)
EXTENDS Integers, Sequences, FiniteSets, Bags, TLC

\* ---------------------------------------------------------------- bounds
\* concurrent HTTP requests
NumReqs == 2
\* last value of the clock (Date.now())
MaxTime == 1

Reqs == 1..NumReqs
Times == 0..MaxTime

\* ------------------------------------------------------------- constants
\* config.paymentExpiryMs, in clock ticks
PaymentExpiryMs == 1
\* config.defaultPaymentAmount, in base units of the token
DefaultPaymentAmount == 2

\* config.merchantAccount and some other account
Merchant == "merchant"
OtherAccount == "other"
Accounts == {Merchant, OtherAccount}

\* programId of an instruction
TOKEN_PROGRAM_ID == "token"
SystemProgramId == "system"

\* the network and scheme the server's payment requirements name, and
\* another network
RequiredNetwork == "solana-mainnet"
RequiredScheme == "exact"
OtherNetwork == "other-network"

\* a field the JSON object of a header does not have
Undefined == "undefined"

\* ---------------------------------------------------------------- inputs
\* A serialized transaction as the client put it in header.transaction:
\* whether it is a decodable base64 transaction, the program of its
\* instruction, the account among the instruction's keys, the amount it
\* moves and whether it carries the payer's valid signature.
AllTransactions ==
    [decodable : BOOLEAN, programId : {TOKEN_PROGRAM_ID, SystemProgramId},
     to : Accounts, amount : {DefaultPaymentAmount - 1, DefaultPaymentAmount},
     signed : BOOLEAN]

ExactTransfer ==
    [decodable |-> TRUE, programId |-> TOKEN_PROGRAM_ID, to |-> Merchant,
     amount |-> DefaultPaymentAmount, signed |-> TRUE]

\* number of fields in which a transaction differs from the exact transfer
Deviations(tx) ==
    Cardinality({f \in DOMAIN tx : tx[f] # ExactTransfer[f]})

\* the transactions clients submit: the exact transfer and every
\* transaction that differs from it in one respect
Transactions == {tx \in AllTransactions : Deviations(tx) <= 1}

\* The X-PAYMENT header of a request: absent, not JSON, the JSON value
\* null, or a JSON object.  recipient is the header's own field: clients
\* name the merchant or the account their transaction pays.  network and
\* scheme are fields of the x402 payload that X402PaymentHeader does not
\* declare and JSON.parse keeps.
NoHeader ==
    [present |-> FALSE, json |-> FALSE, isNull |-> FALSE, paymentId |-> "",
     recipient |-> Merchant, transaction |-> ExactTransfer,
     network |-> RequiredNetwork, scheme |-> RequiredScheme]

\* the paymentIds clients send: those the server can have issued
PaymentIds == {ToString(t) : t \in Times}

Headers ==
    {h \in [present : {TRUE}, json : {TRUE}, isNull : {FALSE},
            paymentId : PaymentIds, recipient : Accounts,
            transaction : Transactions, network : {RequiredNetwork},
            scheme : {RequiredScheme}] :
        h.recipient \in {Merchant, h.transaction.to}}
    \cup {[NoHeader EXCEPT !.present = TRUE]}

\* Header values that probe parsePaymentHeader: text that is not JSON, the
\* JSON value null, the header of an exact payment for paymentId "0" and
\* every JSON object that differs from it in one field (paymentId missing,
\* another transaction, another network, the network's name as scheme).
ExactHeader ==
    [present |-> TRUE, json |-> TRUE, isNull |-> FALSE,
     paymentId |-> ToString(0), recipient |-> Merchant,
     transaction |-> ExactTransfer, network |-> RequiredNetwork,
     scheme |-> RequiredScheme]

RawHeaders ==
    {h \in [present : {TRUE}, json : {TRUE}, isNull : {FALSE},
            paymentId : {ToString(0), Undefined}, recipient : {Merchant},
            transaction : Transactions,
            network : {RequiredNetwork, OtherNetwork},
            scheme : {RequiredScheme, RequiredNetwork}] :
        Cardinality({f \in DOMAIN h : h[f] # ExactHeader[f]}) <= 1}
    \cup {[NoHeader EXCEPT !.present = TRUE],
          [NoHeader EXCEPT !.present = TRUE, !.json = TRUE, !.isNull = TRUE]}

\* ------------------------------------------------------ values of results
NoSignature == ""
\* the signature the ledger returns for a transaction: a string that
\* identifies the transaction
Signature(tx) == ToString(tx)

NoStatus ==
    [returned |-> FALSE, success |-> FALSE, error |-> "", paymentId |-> "",
     signature |-> NoSignature]

NoResponse ==
    [status |-> 0, kind |-> "none", paymentId |-> "", expiresAt |-> 0,
     amount |-> 0,
     success |-> FALSE, error |-> "", signature |-> NoSignature]

\* ------------------------------------------------------------ agent swarm
\* bounds of the swarm: calls of processPaymentIntent, policy agents,
\* payment agents, largest amount of an intent
NumTasks == 2
NumPolicy == 2
NumPayment == 1
MaxAmount == 2
\* usePagination: the largest total of items and the largest page size
MaxTotal == 8
MaxPageSize == 3

Tasks == 1..NumTasks
PolicyAgents == 1..NumPolicy
PaymentAgents == 1..NumPayment
Tokens == {"USDC"}

\* PaymentIntent: amount 0 stands for the intents validatePaymentIntent
\* refuses
Intents == [amount : 0..MaxAmount, token : Tokens]
NoIntent == [amount |-> 0, token |-> ""]

\* PaymentResult
NoResult == [set |-> FALSE, success |-> FALSE, error |-> ""]
Failure(error) == [set |-> TRUE, success |-> FALSE, error |-> error]
Success == [set |-> TRUE, success |-> TRUE, error |-> ""]

\* AgentMessage: type, recipient and payload (taskId, intent, approved,
\* reason, result)
Message(type, to, taskId, intent, approved, reason, result) ==
    [type |-> type, to |-> to, taskId |-> taskId, intent |-> intent,
     approved |-> approved, reason |-> reason, result |-> result]

Coordinator == 0

\* --------------------------------------------------- X402PaymentsAgent
\* hostnames of the resources, and the wildcard of trustedDomains
Hosts == {"shop.example", "other.example"}
Wildcard == "*"

\* new URL(resource): a URL with its hostname, or a resource that is not a
\* URL (new URL throws)
Url(hostname) == [valid |-> TRUE, hostname |-> hostname]
NotAUrl == [valid |-> FALSE, hostname |-> ""]
Resources == {Url(h) : h \in Hosts} \cup {NotAUrl}

\* Number.prototype.toString of the amounts of the model, and parseFloat of
\* such a string
Digits == <<"0", "1", "2", "3", "4", "5", "6", "7", "8", "9">>
NumberToString(n) == Digits[n + 1]
parseFloat(str) == CHOOSE n \in 0..(Len(Digits) - 1) : Digits[n + 1] = str

\* PaymentInfoSchema: what page.extract reads from the page; resourceId is
\* optional
NoResourceId == [given |-> FALSE, resource |-> NotAUrl]
ResourceId(resource) == [given |-> TRUE, resource |-> resource]
PaymentInfos ==
    [amount : 0..MaxAmount, currency : {"SOL", "BTC"},
     resourceId : {NoResourceId} \cup {ResourceId(x) : x \in Resources}]

\* PaymentRequirements (network, maxAmountRequired, resource)
NoRequirements == [network |-> "", maxAmountRequired |-> "", resource |-> NotAUrl]

\* the result of processPaymentFlow
NoFlowResult == [set |-> FALSE, success |-> FALSE, transactionSignature |-> FALSE]
FlowResult(success, transactionSignature) ==
    [set |-> TRUE, success |-> success,
     transactionSignature |-> transactionSignature]

\* ----------------------------------------------------- SolPay402Client
\* SolPay402ClientOptions.maxPaymentAmount as passed to the constructor:
\* the key is missing, or it is there with the value undefined or a number
NoOption == [present |-> FALSE, defined |-> FALSE, value |-> 0]
UndefinedOption == [present |-> TRUE, defined |-> FALSE, value |-> 0]
NumberOption(n) == [present |-> TRUE, defined |-> TRUE, value |-> n]
MaxPaymentOptions ==
    {NoOption, UndefinedOption} \cup {NumberOption(n) : n \in 0..(MaxAmount - 1)}

DefaultMaxPaymentAmount == 1

\* SolPay402ClientOptions.onPaymentRequest: no callback, or a callback and
\* what the user answers in it
ApprovalCallbacks == {"none", "approves", "declines"}

\* SolPay402Client constructor: maxPaymentAmount: options.maxPaymentAmount
\* || 1 comes first and ...options after it, so a key that is present wins
\* with whatever value it has
ClientOptions(autoApprove, maxPaymentOption, onPaymentRequest) ==
    [autoApprove |-> autoApprove,
     onPaymentRequest |-> onPaymentRequest,
     maxPaymentAmount |->
         IF maxPaymentOption.present THEN maxPaymentOption
         ELSE NumberOption(DefaultMaxPaymentAmount)]

\* a comparison that lets every amount pass
GreaterThan_Never(a, b) == FALSE

\* a > b of JavaScript for a number a and an option b: false for undefined
GreaterThan(a, b) == b.defined /\ a > b.value

\* the first response of the server: its status, whether it has an
\* X-PAYMENT-REQUEST header, whether JSON.parse accepts the header, and the
\* amount of the parsed payment request
Reply(status, hasRequest, parses, amount) ==
    [status |-> status, hasRequest |-> hasRequest, parses |-> parses,
     amount |-> amount]
NoReply == Reply(0, FALSE, FALSE, 0)
Replies ==
    {Reply(200, FALSE, FALSE, 0), Reply(500, FALSE, FALSE, 0),
     Reply(402, FALSE, FALSE, 0), Reply(402, TRUE, FALSE, 0)}
    \cup {Reply(402, TRUE, TRUE, n) : n \in 1..MaxAmount}

\* how a call of the fetch wrapper ends: it returns a response or throws
NoFetchResult == [kind |-> "none", status |-> 0]
Threw == [kind |-> "error", status |-> 0]
Returned(status) == [kind |-> "response", status |-> status]

\* ----------------------------------------------------------------- state
VARIABLES
    now,            \* Date.now()
    ledger,         \* the Solana ledger: status of every transaction
    pc,             \* where each request is
    header,         \* req.headers['x-payment'] of each request
    isValid,        \* result of verifyTransaction in the request's cycle
    paymentStatus,  \* PaymentStatus returned by verifyAndSettlePayment
    response,       \* the HTTP response sent for the request
    connected,      \* whether the client of the request is still connected
    webhook,        \* the settlement webhook of the request
    paymentAmount,  \* req.paymentAmount of the request, 0 when not set
    \* the agent swarm
    spendingLimits, \* PolicyAgent.config.spendingLimits[token], 0: not set
    dailyLimit,     \* PolicyAgent.config.dailyLimit
    maxPaymentAmount, \* PaymentAgent.config.maxPaymentAmount
    activeTasks,    \* CoordinatorAgent.activeTasks
    taskResults,    \* CoordinatorAgent.taskResults
    resolved,       \* what processPaymentIntent returned for each task
    bus,            \* EventBus: the messages published and not yet handled
    dailySpending,  \* PolicyAgent.dailySpending
    processing,     \* the payments PaymentAgent.processPayment is making
    executed,       \* the payments made for each task
    \* X402PaymentsAgent
    bridgeConfig,   \* maxTransactionAmount and trustedDomains
    currentChain,   \* x402Protocol.getCurrentChain()
    flow,           \* where processPaymentFlow is
    paymentRequirements, \* what navigateAndDetectPayment returned
    paid,           \* the payment made in the flow: none, bridge, direct
    verified,       \* what submitPaymentAndVerify returned
    recorded,       \* whether recordTransaction was called in the flow
    flowResult,     \* what processPaymentFlow returned
    \* SolPay402Client
    clientOptions,  \* this.options
    fetchPc,        \* where the call of the fetch wrapper is
    reply,          \* the response to the first request
    sent,           \* the requests sent: whether each carries X-PAYMENT
    paymentsCreated, \* calls of createPayment that returned a header
    fetchResult,    \* how the call ended
    \* usePagination
    pagination      \* the hook's state: page, pageSize and total

\* the state of the middleware and the facilitator, and of what surrounds a
\* request (its connection, its webhook)
gatewayVars == <<now, ledger, pc, header, isValid, paymentStatus, response>>
sideVars == <<connected, webhook, paymentAmount>>

swarmConfig == <<spendingLimits, dailyLimit, maxPaymentAmount>>
swarmVars == <<swarmConfig, activeTasks, taskResults, resolved, bus,
               dailySpending, processing, executed>>

agentVars == <<bridgeConfig, currentChain, flow, paymentRequirements, paid,
               verified, recorded, flowResult>>
clientVars == <<clientOptions, fetchPc, reply, sent, paymentsCreated,
                fetchResult>>

\* the state of the components other than the gateway
outerVars == <<swarmVars, agentVars, clientVars, pagination>>

\* what the middleware and the facilitator never touch
notGatewayVars == <<sideVars, outerVars>>

vars == <<gatewayVars, sideVars, outerVars>>

GatewayInitOver(R) ==
    /\ now = 0
    /\ ledger = [tx \in Transactions |-> "unseen"]
    /\ pc = [r \in R |-> "await"]
    /\ header = [r \in R |-> NoHeader]
    /\ isValid = [r \in R |-> "none"]
    /\ paymentStatus = [r \in R |-> NoStatus]
    /\ response = [r \in R |-> NoResponse]
    /\ connected = [r \in R |-> TRUE]
    /\ webhook = [r \in R |-> "none"]

GatewayInit == GatewayInitOver(Reqs)

\* the coordinator, the policy agents and the payment agents after start()
SwarmStart ==
    /\ activeTasks = [t \in Tasks |-> NoIntent]
    /\ taskResults = [t \in Tasks |-> NoResult]
    /\ resolved = [t \in Tasks |-> NoResult]
    /\ bus = EmptyBag
    /\ dailySpending = [a \in PolicyAgents |-> [k \in Tokens |-> 0]]
    /\ processing = EmptyBag
    /\ executed = [t \in Tasks |-> 0]

\* the state of a component that the process under study does not
\* construct: the resource server creates no swarm, agent or client, and
\* none of these creates a server
Absent == <<>>

SwarmAbsent ==
    /\ spendingLimits = Absent
    /\ dailyLimit = Absent
    /\ maxPaymentAmount = Absent
    /\ activeTasks = Absent
    /\ taskResults = Absent
    /\ resolved = Absent
    /\ bus = Absent
    /\ dailySpending = Absent
    /\ processing = Absent
    /\ executed = Absent

AgentAbsent ==
    /\ bridgeConfig = Absent
    /\ currentChain = Absent
    /\ flow = Absent
    /\ paymentRequirements = Absent
    /\ paid = Absent
    /\ verified = Absent
    /\ recorded = Absent
    /\ flowResult = Absent

ClientAbsent ==
    /\ clientOptions = Absent
    /\ fetchPc = Absent
    /\ reply = Absent
    /\ sent = Absent
    /\ paymentsCreated = Absent
    /\ fetchResult = Absent

PaginationAbsent == pagination = Absent

GatewayAbsent ==
    /\ now = Absent
    /\ ledger = Absent
    /\ pc = Absent
    /\ header = Absent
    /\ isValid = Absent
    /\ paymentStatus = Absent
    /\ response = Absent
    /\ connected = Absent
    /\ webhook = Absent
    /\ paymentAmount = Absent

\* X402PaymentsAgent before processPaymentFlow
AgentStart ==
    /\ flow = "idle"
    /\ paymentRequirements = NoRequirements
    /\ paid = "none"
    /\ verified = FALSE
    /\ recorded = FALSE
    /\ flowResult = NoFlowResult

\* the fetch wrapper before its call
ClientStart ==
    /\ fetchPc = "idle"
    /\ reply = NoReply
    /\ sent = <<>>
    /\ paymentsCreated = 0
    /\ fetchResult = NoFetchResult

\* the components other than the gateway
OuterInit == SwarmAbsent /\ AgentAbsent /\ ClientAbsent /\ PaginationAbsent

\* the gateway as constructed, before any request
GatewayIdle ==
    /\ GatewayInit
    /\ paymentAmount = [r \in Reqs |-> 0]

Init ==
    /\ GatewayIdle
    /\ OuterInit

\* the amounts a route can have set as req.paymentAmount before the
\* middleware runs
RouteAmounts == {0, DefaultPaymentAmount - 1, DefaultPaymentAmount}

PricedInit ==
    /\ GatewayInit
    /\ paymentAmount \in [Reqs -> RouteAmounts]
    /\ OuterInit

\* ------------------------------------------------------------ facilitator
\* verifyTransaction that takes the transactions that do not name the
\* recipient
verifyTransaction_WrongKey(transaction, hdr) ==
    /\ transaction.programId = TOKEN_PROGRAM_ID
    /\ transaction.to # hdr.recipient

\* PaymentFacilitator.verifyTransaction: some instruction of the token
\* program has the header's recipient among its keys.  The amount check
\* and the replay check are comments only.
verifyTransaction(transaction, hdr) ==
    /\ transaction.programId = TOKEN_PROGRAM_ID
    /\ transaction.to = hdr.recipient

\* the replay check of verifyTransaction ("This would use a database in a
\* production system"): nothing is ever recorded as processed
hasConsumed(paymentId) == FALSE

\* PaymentStatus of a failure
FailureStatus(error, hdr) ==
    [returned |-> TRUE, success |-> FALSE, error |-> error,
     paymentId |-> hdr.paymentId, signature |-> NoSignature]

\* PaymentStatus of a success
SuccessStatus(signature, hdr) ==
    [returned |-> TRUE, success |-> TRUE, error |-> "",
     paymentId |-> hdr.paymentId, signature |-> signature]

\* serialize({verifySignatures: false}): never throws
serializeThrows_Unverified(transaction) == FALSE

\* transaction.serialize() in sendTransaction: with its default
\* {requireAllSignatures: true, verifySignatures: true} it throws unless
\* the transaction carries the valid signatures of its signers
serializeThrows(transaction) == ~transaction.signed

\* verifyAndSettlePayment without its return on !isValid
verifyAndSettlePayment_NoGuard(hdr) ==
    IF ~hdr.transaction.decodable
    THEN [isValid |-> "none", sent |-> FALSE,
          status |-> FailureStatus("Invalid transaction encoding", hdr)]
    ELSE IF serializeThrows(hdr.transaction)
    THEN [isValid |-> IF verifyTransaction(hdr.transaction, hdr)
                      THEN "true" ELSE "false",
          sent |-> FALSE,
          status |-> FailureStatus("Transaction sending failed", hdr)]
    ELSE [isValid |-> IF verifyTransaction(hdr.transaction, hdr)
                      THEN "true" ELSE "false",
          sent |-> TRUE, status |-> NoStatus]

\* verifyAndSettlePayment up to its first network await: decodeTransaction,
\* verifyTransaction, return on !isValid, then sendTransaction up to the
\* call of connection.sendRawTransaction.  sent: the transaction is on its
\* way to the node; otherwise status is the PaymentStatus returned.
verifyAndSettlePayment(hdr) ==
    IF ~hdr.transaction.decodable
    THEN [isValid |-> "none", sent |-> FALSE,
          status |-> FailureStatus("Invalid transaction encoding", hdr)]
    ELSE IF ~verifyTransaction(hdr.transaction, hdr)
    THEN [isValid |-> "false", sent |-> FALSE,
          status |-> FailureStatus("Invalid transaction", hdr)]
    ELSE IF serializeThrows(hdr.transaction)
    THEN [isValid |-> "true", sent |-> FALSE,
          status |-> FailureStatus("Transaction sending failed", hdr)]
    ELSE [isValid |-> "true", sent |-> TRUE, status |-> NoStatus]

\* ------------------------------------------------------------- middleware
\* createPaymentResponse: paymentId is set from transaction.signature
createPaymentResponse(transaction) ==
    [status |-> 200, kind |-> "resource", paymentId |-> transaction.signature,
     expiresAt |-> 0, amount |-> 0, success |-> TRUE, error |-> "",
     signature |-> transaction.signature]

\* a .then callback that calls next() whatever paymentStatus.success is
Respond_AlwaysNext(status, hdr) == createPaymentResponse(status)

\* the .then callback of the middleware: next() and the route handler on
\* success, 402 with X-PAYMENT-RESPONSE otherwise
Respond(status, hdr) ==
    IF status.success
    THEN createPaymentResponse(status)
    ELSE [status |-> 402, kind |-> "failed", paymentId |-> hdr.paymentId,
          expiresAt |-> 0, amount |-> 0, success |-> FALSE,
          error |-> status.error,
          signature |-> NoSignature]

\* the request's cycle ends with this PaymentStatus
Finish(r, status) ==
    /\ paymentStatus' = [paymentStatus EXCEPT ![r] = status]
    /\ response' = [response EXCEPT ![r] = Respond(status, header'[r])]
    /\ pc' = [pc EXCEPT ![r] = "done"]

\* Date.now() advances
Tick ==
    /\ now < MaxTime
    /\ now' = now + 1
    /\ UNCHANGED <<ledger, pc, header, isValid, paymentStatus, response>>
    /\ UNCHANGED notGatewayVars

\* a PaymentRequest that takes req.paymentAmount as it is
PaymentRequestAmount_NoDefault(amount) == amount

\* amount of the PaymentRequest: req.paymentAmount ||
\* config.defaultPaymentAmount (0 stands for an amount that is not set)
PaymentRequestAmount(amount) ==
    IF amount = 0 THEN DefaultPaymentAmount ELSE amount

\* paymentRequiredMiddleware, no x-payment header: 402 with a PaymentRequest
RequestWithoutPayment(r) ==
    /\ pc[r] = "await"
    /\ response' = [response EXCEPT ![r] =
           [status |-> 402, kind |-> "challenge", paymentId |-> ToString(now),
            expiresAt |-> now + PaymentExpiryMs,
            amount |-> PaymentRequestAmount(paymentAmount[r]),
            success |-> FALSE,
            error |-> "Payment Required", signature |-> NoSignature]]
    /\ pc' = [pc EXCEPT ![r] = "done"]
    /\ UNCHANGED <<now, ledger, header, isValid, paymentStatus>>
    /\ UNCHANGED notGatewayVars

\* a middleware whose verification marks the transaction on the ledger
RequestWithPayment_Submitting(r, h) ==
    /\ pc[r] = "await"
    /\ header' = [header EXCEPT ![r] = h]
    /\ ledger' = [ledger EXCEPT ![h.transaction] = "pending"]
    /\ UNCHANGED now
    /\ UNCHANGED notGatewayVars
    /\ LET call == verifyAndSettlePayment(h) IN
       /\ isValid' = [isValid EXCEPT ![r] = call.isValid]
       /\ IF call.sent
          THEN /\ pc' = [pc EXCEPT ![r] = "send"]
               /\ UNCHANGED <<paymentStatus, response>>
          ELSE Finish(r, call.status)

\* paymentRequiredMiddleware with an x-payment header, up to the first
\* network await of verifyAndSettlePayment.  A header that is not JSON makes
\* parsePaymentHeader throw: 400.  For the JSON value null reading
\* paymentHeader.transaction throws in verifyAndSettlePayment and reading
\* paymentHeader.paymentId throws again in its catch block: the promise
\* rejects and the .catch of the middleware answers 500.
RequestWithPayment(r, h) ==
    /\ pc[r] = "await"
    /\ header' = [header EXCEPT ![r] = h]
    /\ UNCHANGED <<now, ledger>>
    /\ UNCHANGED notGatewayVars
    /\ IF ~h.json
       THEN /\ response' = [response EXCEPT ![r] =
                   [NoResponse EXCEPT !.status = 400,
                                      !.kind = "invalid-header",
                                      !.error = "Invalid Payment Header"]]
            /\ pc' = [pc EXCEPT ![r] = "done"]
            /\ UNCHANGED <<isValid, paymentStatus>>
       ELSE IF h.isNull
       THEN /\ response' = [response EXCEPT ![r] =
                   [NoResponse EXCEPT !.status = 500,
                                      !.kind = "internal-error",
                                      !.error = "Internal Server Error"]]
            /\ pc' = [pc EXCEPT ![r] = "done"]
            /\ UNCHANGED <<isValid, paymentStatus>>
       ELSE LET call == verifyAndSettlePayment(h) IN
            /\ isValid' = [isValid EXCEPT ![r] = call.isValid]
            /\ IF call.sent
               THEN /\ pc' = [pc EXCEPT ![r] = "send"]
                    /\ UNCHANGED <<paymentStatus, response>>
               ELSE Finish(r, call.status)

\* connection.sendRawTransaction answers.  With preflight the node throws
\* for a transaction that was already processed, for one without valid
\* signatures and for one whose simulation fails; otherwise it takes the
\* transaction and returns its signature.
SendRawTransaction(r) ==
    /\ pc[r] = "send"
    /\ UNCHANGED <<now, header, isValid>>
    /\ UNCHANGED notGatewayVars
    /\ LET tx == header[r].transaction IN
       \/ /\ ledger[tx] \in {"unseen", "pending"}
          /\ tx.signed
          /\ ledger' = [ledger EXCEPT ![tx] = "pending"]
          /\ pc' = [pc EXCEPT ![r] = "confirm"]
          /\ UNCHANGED <<paymentStatus, response>>
       \/ /\ ledger[tx] # "pending"
          /\ Finish(r, FailureStatus("Transaction sending failed", header[r]))
          /\ UNCHANGED ledger

\* a ledger whose late confirmation is reconciled by the server: the
\* requests that gave up waiting for tx are answered with the resource
LedgerProcess_Reconciling(tx) ==
    /\ ledger[tx] = "pending"
    /\ ledger' = [ledger EXCEPT ![tx] = "ok"]
    /\ response' = [r \in Reqs |->
           IF /\ pc[r] = "done"
              /\ header[r].transaction = tx
              /\ paymentStatus[r].error = "Transaction was not confirmed"
           THEN createPaymentResponse(SuccessStatus(Signature(tx), header[r]))
           ELSE response[r]]
    /\ UNCHANGED <<now, pc, header, isValid, paymentStatus>>
    /\ UNCHANGED notGatewayVars

\* the ledger processes a pending transaction: it executes (the transfer
\* happens) or it fails on chain; either way it is confirmed
LedgerProcess(tx) ==
    /\ ledger[tx] = "pending"
    /\ \E outcome \in {"ok", "err"} :
          ledger' = [ledger EXCEPT ![tx] = outcome]
    /\ UNCHANGED <<now, pc, header, isValid, paymentStatus, response>>
    /\ UNCHANGED notGatewayVars

\* a confirmTransaction without timeout: it answers only once the
\* transaction is confirmed
ConfirmTransaction_NoTimeout(r) ==
    /\ pc[r] = "confirm"
    /\ ledger[header[r].transaction] # "pending"
    /\ UNCHANGED <<now, ledger, header, isValid>>
    /\ UNCHANGED notGatewayVars
    /\ Finish(r, SuccessStatus(Signature(header[r].transaction), header[r]))

\* connection.confirmTransaction answers: it resolves once the transaction
\* is confirmed (its value.err is not looked at) and throws when the wait
\* times out first.
ConfirmTransaction(r) ==
    /\ pc[r] = "confirm"
    /\ UNCHANGED <<now, ledger, header, isValid>>
    /\ UNCHANGED notGatewayVars
    /\ LET tx == header[r].transaction IN
       IF ledger[tx] = "pending"
       THEN Finish(r, FailureStatus("Transaction was not confirmed", header[r]))
       ELSE Finish(r, SuccessStatus(Signature(tx), header[r]))

Next ==
    \/ Tick
    \/ \E r \in Reqs : RequestWithoutPayment(r)
    \/ \E r \in Reqs : \E h \in Headers : RequestWithPayment(r, h)
    \/ \E r \in Reqs : SendRawTransaction(r)
    \/ \E tx \in Transactions : LedgerProcess(tx)
    \/ \E r \in Reqs : ConfirmTransaction(r)

Spec == Init /\ [][Next]_vars

\* the middleware and the facilitator fed with the header values that probe
\* parsePaymentHeader
DecodeNext ==
    \/ Tick
    \/ \E r \in Reqs : RequestWithoutPayment(r)
    \/ \E r \in Reqs : \E h \in RawHeaders : RequestWithPayment(r, h)
    \/ \E r \in Reqs : SendRawTransaction(r)
    \/ \E tx \in Transactions : LedgerProcess(tx)
    \/ \E r \in Reqs : ConfirmTransaction(r)

DecodeSpec == Init /\ [][DecodeNext]_vars

\* app.get('/api/protected-resource', ...): the first handler of the route
\* sets req.paymentAmount, req.paymentToken and req.paymentDescription and
\* returns; it takes no next and sends nothing, so the request stays with
\* the route and paymentRequiredMiddleware is not called for it.
RouteHandler(r, h) ==
    /\ pc[r] = "await"
    /\ header' = [header EXCEPT ![r] = h]
    /\ pc' = [pc EXCEPT ![r] = "route"]
    /\ UNCHANGED <<now, ledger, isValid, paymentStatus, response>>
    /\ UNCHANGED notGatewayVars

\* the handler chain of the route
RouteNext ==
    \/ Tick
    \/ \E r \in Reqs : \E h \in Headers \cup {NoHeader} : RouteHandler(r, h)

RouteSpec == Init /\ [][RouteNext]_vars

\* ---------------------------------------- verifyPayment (signature flow)
\* the x-solana-signature header of a client that paid first: it names a
\* transaction by its signature
SolanaSignature == "x-solana-signature"

SignatureHeader(tx) ==
    [NoHeader EXCEPT !.present = TRUE, !.paymentId = Signature(tx),
                     !.transaction = tx, !.scheme = SolanaSignature]

\* the client sends its transfer itself (connection.sendTransaction)
ClientSendTransaction(tx) ==
    /\ ledger[tx] = "unseen"
    /\ ledger' = [ledger EXCEPT ![tx] = "pending"]
    /\ UNCHANGED <<now, pc, header, isValid, paymentStatus, response>>
    /\ UNCHANGED notGatewayVars

\* verifyPayment(signature, expectedAmount, receiver) up to its await of
\* connection.getTransaction
VerifyPaymentCall(r, tx) ==
    /\ pc[r] = "await"
    /\ header' = [header EXCEPT ![r] = SignatureHeader(tx)]
    /\ pc' = [pc EXCEPT ![r] = "fetch"]
    /\ UNCHANGED <<now, ledger, isValid, paymentStatus, response>>
    /\ UNCHANGED notGatewayVars

\* connection.getTransaction answers and verifyPayment ends: it throws for
\* a transaction that is not found or failed, and when no USDC balance is
\* listed or the first listed USDC post balance (balance: any amount, it is
\* not the amount transferred) is below expectedAmount; else returns true.
GetTransactionReturns(r) ==
    /\ pc[r] = "fetch"
    /\ LET tx == header[r].transaction IN
       \E balance \in {DefaultPaymentAmount - 1, DefaultPaymentAmount} :
          isValid' = [isValid EXCEPT ![r] =
              IF ledger[tx] # "ok" THEN "false"
              ELSE IF tx.programId # TOKEN_PROGRAM_ID THEN "false"
              ELSE IF balance < DefaultPaymentAmount THEN "false"
              ELSE "true"]
    /\ pc' = [pc EXCEPT ![r] = "done"]
    /\ UNCHANGED <<now, ledger, header, paymentStatus, response>>
    /\ UNCHANGED notGatewayVars

\* the payment headers for paymentId "0" with a signed transaction of the
\* required amount, and the transfers to the merchant a client can have
\* sent itself
VerifyHeaders ==
    {h \in Headers : /\ h.json
                     /\ h.paymentId = ToString(0)
                     /\ h.recipient = Merchant
                     /\ h.transaction.signed
                     /\ h.transaction.amount = DefaultPaymentAmount}

SentByClient ==
    {tx \in Transactions : /\ tx.decodable
                           /\ tx.signed
                           /\ tx.to = Merchant}

\* the two verifiers of the repository side by side: verifyTransaction in
\* the middleware of the backend, and verifyPayment of the signature flow
VerifyNext ==
    \/ \E r \in Reqs : \E h \in VerifyHeaders : RequestWithPayment(r, h)
    \/ \E r \in Reqs : SendRawTransaction(r)
    \/ \E tx \in Transactions : LedgerProcess(tx)
    \/ \E r \in Reqs : ConfirmTransaction(r)
    \/ \E tx \in SentByClient : ClientSendTransaction(tx)
    \/ \E r \in Reqs : \E tx \in SentByClient : VerifyPaymentCall(r, tx)
    \/ \E r \in Reqs : GetTransactionReturns(r)

VerifySpec == Init /\ [][VerifyNext]_vars

\* ------------------------------------------------- client disconnection
\* the client of a request that is being settled goes away.  The promise
\* chain of the middleware registers nothing on the request's close event:
\* verifyAndSettlePayment goes on and the response is written to a closed
\* connection.
ClientDisconnect(r) ==
    /\ pc[r] \in {"send", "confirm"}
    /\ connected[r]
    /\ connected' = [connected EXCEPT ![r] = FALSE]
    /\ UNCHANGED <<gatewayVars, webhook, paymentAmount, outerVars>>

\* paid requests whose clients may disconnect during settlement
DisconnectNext ==
    \/ \E r \in Reqs : \E h \in VerifyHeaders : RequestWithPayment(r, h)
    \/ \E r \in Reqs : SendRawTransaction(r)
    \/ \E tx \in Transactions : LedgerProcess(tx)
    \/ \E r \in Reqs : ConfirmTransaction(r)
    \/ \E r \in Reqs : ClientDisconnect(r)

DisconnectSpec == Init /\ [][DisconnectNext]_vars

\* ------------------------------------------------------ async webhook
\* step 8 of the flow: after the 200 response of a settled payment the
\* asynchronous webhook "payment settled confirmation" is sent
SendWebhook(r) ==
    /\ response[r].status = 200
    /\ webhook[r] = "none"
    /\ webhook' = [webhook EXCEPT ![r] = "sent"]
    /\ UNCHANGED <<gatewayVars, connected, paymentAmount, outerVars>>

\* the webhook arrives
WebhookReceived(r) ==
    /\ webhook[r] = "sent"
    /\ webhook' = [webhook EXCEPT ![r] = "received"]
    /\ UNCHANGED <<gatewayVars, connected, paymentAmount, outerVars>>

\* a webhook whose failure fails the request it reports
WebhookLost_FailsRequest(r) ==
    /\ webhook[r] = "sent"
    /\ webhook' = [webhook EXCEPT ![r] = "lost"]
    /\ response' = [response EXCEPT ![r] =
           [NoResponse EXCEPT !.status = 500, !.kind = "internal-error",
                              !.error = "Internal Server Error"]]
    /\ UNCHANGED <<now, ledger, pc, header, isValid, paymentStatus, connected,
                   paymentAmount, outerVars>>

\* the webhook fails; one that is never answered stays "sent"
WebhookLost(r) ==
    /\ webhook[r] = "sent"
    /\ webhook' = [webhook EXCEPT ![r] = "lost"]
    /\ UNCHANGED <<gatewayVars, connected, paymentAmount, outerVars>>

\* paid requests followed by their webhooks
NotifyNext ==
    \/ \E r \in Reqs : \E h \in VerifyHeaders : RequestWithPayment(r, h)
    \/ \E r \in Reqs : SendRawTransaction(r)
    \/ \E tx \in Transactions : LedgerProcess(tx)
    \/ \E r \in Reqs : ConfirmTransaction(r)
    \/ \E r \in Reqs : SendWebhook(r)
    \/ \E r \in Reqs : WebhookReceived(r)
    \/ \E r \in Reqs : WebhookLost(r)

NotifySpec == Init /\ [][NotifyNext]_vars

\* ------------------------------------------------------- priced routes
\* the middleware behind routes that have or have not set req.paymentAmount
PricedNext ==
    \/ Tick
    \/ \E r \in Reqs : RequestWithoutPayment(r)
    \/ \E r \in Reqs : \E h \in VerifyHeaders : RequestWithPayment(r, h)
    \/ \E r \in Reqs : SendRawTransaction(r)
    \/ \E tx \in Transactions : LedgerProcess(tx)
    \/ \E r \in Reqs : ConfirmTransaction(r)

PricedSpec == PricedInit /\ [][PricedNext]_vars

\* ------------------------------------------------ long after the expiry
\* the margin after expiresAt: one challenge-timeout window
SafetyMargin == PaymentExpiryMs

\* three requests in a row: one is challenged, one pays, one pays late
LateReqs == 1..(NumReqs + 1)

LateInit ==
    /\ GatewayInitOver(LateReqs)
    /\ paymentAmount = [r \in LateReqs |-> 0]
    /\ OuterInit

\* Date.now() advances beyond expiresAt and the margin
LateTick ==
    /\ now < MaxTime + SafetyMargin
    /\ now' = now + 1
    /\ UNCHANGED <<ledger, pc, header, isValid, paymentStatus, response>>
    /\ UNCHANGED notGatewayVars

\* the payments for paymentId "0" that verifyTransaction passes
LateHeaders ==
    {h \in VerifyHeaders : verifyTransaction(h.transaction, h)}
    \cup {[ExactHeader EXCEPT !.transaction.amount = DefaultPaymentAmount - 1]}

LateNext ==
    \/ LateTick
    \/ \E r \in LateReqs : RequestWithoutPayment(r)
    \/ \E r \in LateReqs : \E h \in LateHeaders : RequestWithPayment(r, h)
    \/ \E r \in LateReqs : SendRawTransaction(r)
    \/ \E tx \in Transactions : LedgerProcess(tx)
    \/ \E r \in LateReqs : ConfirmTransaction(r)

LateSpec == LateInit /\ [][LateNext]_vars

\* ------------------------------------------------------------ agent swarm
\* what the agents of the swarm never touch
notSwarmVars == <<gatewayVars, sideVars, agentVars, clientVars, pagination>>

\* AgentSwarm constructor: the configurations of the policy agents and of
\* the payment agents
SwarmInit ==
    /\ GatewayAbsent
    /\ AgentAbsent
    /\ ClientAbsent
    /\ PaginationAbsent
    /\ spendingLimits \in [PolicyAgents -> [Tokens -> {0, MaxAmount - 1}]]
    /\ dailyLimit = [a \in PolicyAgents |-> MaxAmount + 1]
    /\ maxPaymentAmount \in [PaymentAgents -> {MaxAmount - 1, MaxAmount}]
    /\ SwarmStart

\* EventBus.publish of a broadcast (recipient null): the message reaches the
\* handler of every agent; the agents in recipients are those that have
\* registered a handler for its type
Broadcast(type, recipients, taskId, intent) ==
    SetToBag({Message(type, a, taskId, intent, FALSE, "", NoResult) :
                 a \in recipients})

\* the messages of a type that wait for an agent
Waiting(type, to) ==
    {m \in BagToSet(bus) : m.type = type /\ m.to = to}

\* the task was passed to processPaymentIntent
Started(t) == activeTasks[t] # NoIntent \/ resolved[t].set

\* CoordinatorAgent.validatePaymentIntent
validatePaymentIntent(intent) == intent.amount > 0 /\ intent.token # ""

\* CoordinatorAgent.processPaymentIntent up to its return: an invalid
\* intent is answered at once (its entries stay in activeTasks and
\* taskResults), a valid one is broadcast as policy.check and the promise
\* that polls taskResults is returned.  Task ids (uuidv4) are taken in
\* order.
processPaymentIntent(t, intent) ==
    /\ ~Started(t)
    /\ \A u \in Tasks : u < t => Started(u)
    /\ activeTasks' = [activeTasks EXCEPT ![t] = intent]
    /\ IF ~validatePaymentIntent(intent)
       THEN /\ taskResults' = [taskResults EXCEPT
                                  ![t] = Failure("Invalid payment intent")]
            /\ resolved' = [resolved EXCEPT
                                  ![t] = Failure("Invalid payment intent")]
            /\ UNCHANGED bus
       ELSE /\ bus' = bus (+) Broadcast("policy.check", PolicyAgents, t, intent)
            /\ UNCHANGED <<taskResults, resolved>>
    /\ UNCHANGED <<swarmConfig, dailySpending, processing, executed>>
    /\ UNCHANGED notSwarmVars

\* the callback of setInterval in processPaymentIntent finds the result of
\* the task: the promise resolves and the task's entries are deleted
PollTaskResult(t) ==
    /\ activeTasks[t] # NoIntent
    /\ ~resolved[t].set
    /\ taskResults[t].set
    /\ resolved' = [resolved EXCEPT ![t] = taskResults[t]]
    /\ activeTasks' = [activeTasks EXCEPT ![t] = NoIntent]
    /\ taskResults' = [taskResults EXCEPT ![t] = NoResult]
    /\ UNCHANGED <<swarmConfig, bus, dailySpending, processing, executed>>
    /\ UNCHANGED notSwarmVars

\* a policy check that does not look at the daily spending
policyDecision_NoDailyLimit(a, intent) ==
    LET tokenLimit == spendingLimits[a][intent.token]
    IN  IF tokenLimit > 0 /\ intent.amount > tokenLimit
        THEN [approved |-> FALSE, reason |-> "Amount exceeds token limit"]
        ELSE [approved |-> TRUE, reason |-> ""]

\* the decision of PolicyAgent.handlePolicyCheck: the token's spending
\* limit when one is set, then the daily limit
policyDecision(a, intent) ==
    LET tokenLimit == spendingLimits[a][intent.token]
        currentSpending == dailySpending[a][intent.token]
    IN  IF tokenLimit > 0 /\ intent.amount > tokenLimit
        THEN [approved |-> FALSE, reason |-> "Amount exceeds token limit"]
        ELSE IF currentSpending + intent.amount > dailyLimit[a]
        THEN [approved |-> FALSE,
              reason |-> "Transaction would exceed daily limit"]
        ELSE [approved |-> TRUE, reason |-> ""]

\* PolicyAgent.handlePolicyCheck: an approval is added to dailySpending
\* before the decision is sent to the sender of the check
handlePolicyCheck(a, m) ==
    /\ m \in Waiting("policy.check", a)
    /\ LET decision == policyDecision(a, m.intent) IN
       /\ dailySpending' =
             IF decision.approved
             THEN [dailySpending EXCEPT ![a][m.intent.token] =
                                            @ + m.intent.amount]
             ELSE dailySpending
       /\ bus' = (bus (-) SetToBag({m}))
                   (+) SetToBag({Message("policy.decision", Coordinator,
                                         m.taskId, m.intent,
                                         decision.approved, decision.reason,
                                         NoResult)})
    /\ UNCHANGED <<swarmConfig, activeTasks, taskResults, resolved,
                   processing, executed>>
    /\ UNCHANGED notSwarmVars

\* CoordinatorAgent.handlePolicyDecision: for a task in activeTasks an
\* approval is answered with the broadcast of payment.request, a rejection
\* with the task's result 'Policy rejected: <reason>'
handlePolicyDecision(m) ==
    /\ m \in Waiting("policy.decision", Coordinator)
    /\ IF activeTasks[m.taskId] = NoIntent
       THEN /\ bus' = bus (-) SetToBag({m})
            /\ UNCHANGED taskResults
       ELSE IF m.approved
       THEN /\ bus' = (bus (-) SetToBag({m}))
                       (+) Broadcast("payment.request", PaymentAgents,
                                     m.taskId, activeTasks[m.taskId])
            /\ UNCHANGED taskResults
       ELSE /\ bus' = bus (-) SetToBag({m})
            /\ taskResults' = [taskResults EXCEPT ![m.taskId] =
                                  Failure("Policy rejected: " \o m.reason)]
    /\ UNCHANGED <<swarmConfig, activeTasks, resolved, dailySpending,
                   processing, executed>>
    /\ UNCHANGED notSwarmVars

\* PaymentAgent.handlePaymentRequest up to its first await: an amount above
\* maxPaymentAmount is answered with a failed payment.result, any other
\* request goes on to processPayment
handlePaymentRequest(p, m) ==
    /\ m \in Waiting("payment.request", p)
    /\ IF m.intent.amount > maxPaymentAmount[p]
       THEN /\ bus' = (bus (-) SetToBag({m}))
                       (+) SetToBag({Message("payment.result", Coordinator,
                              m.taskId, m.intent, FALSE, "",
                              Failure("Payment amount exceeds limit"))})
            /\ UNCHANGED processing
       ELSE /\ bus' = bus (-) SetToBag({m})
            /\ processing' = processing (+) SetToBag({m})
    /\ UNCHANGED <<swarmConfig, activeTasks, taskResults, resolved,
                   dailySpending, executed>>
    /\ UNCHANGED notSwarmVars

\* PaymentAgent.processPayment ends and handlePaymentRequest sends the
\* payment.result: the payment was made (the paid request was answered ok)
\* or it failed
processPayment(m) ==
    /\ m \in BagToSet(processing)
    /\ processing' = processing (-) SetToBag({m})
    /\ \E ok \in BOOLEAN :
          /\ executed' = IF ok THEN [executed EXCEPT ![m.taskId] = @ + 1]
                         ELSE executed
          /\ bus' = bus (+) SetToBag({Message("payment.result", Coordinator,
                          m.taskId, m.intent, FALSE, "",
                          IF ok THEN Success ELSE Failure("Payment failed"))})
    /\ UNCHANGED <<swarmConfig, activeTasks, taskResults, resolved,
                   dailySpending>>
    /\ UNCHANGED notSwarmVars

\* CoordinatorAgent.handlePaymentResult: the result is stored for a task in
\* activeTasks (the accounting.record it broadcasts has no handler here)
handlePaymentResult(m) ==
    /\ m \in Waiting("payment.result", Coordinator)
    /\ bus' = bus (-) SetToBag({m})
    /\ taskResults' = IF activeTasks[m.taskId] = NoIntent THEN taskResults
                      ELSE [taskResults EXCEPT ![m.taskId] = m.result]
    /\ UNCHANGED <<swarmConfig, activeTasks, resolved, dailySpending,
                   processing, executed>>
    /\ UNCHANGED notSwarmVars

SwarmNext ==
    \/ \E t \in Tasks : \E intent \in Intents : processPaymentIntent(t, intent)
    \/ \E a \in PolicyAgents : \E m \in BagToSet(bus) : handlePolicyCheck(a, m)
    \/ \E m \in BagToSet(bus) : handlePolicyDecision(m)
    \/ \E p \in PaymentAgents : \E m \in BagToSet(bus) :
          handlePaymentRequest(p, m)
    \/ \E m \in BagToSet(processing) : processPayment(m)
    \/ \E m \in BagToSet(bus) : handlePaymentResult(m)
    \/ \E t \in Tasks : PollTaskResult(t)

SwarmSpec == SwarmInit /\ [][SwarmNext]_vars

\* the swarm while only the coordinator's calls and the policy agents run
\* (a swarm without payment agents whose decisions are still on the bus):
\* the steps that read or write PolicyAgent.dailySpending
PolicyNext ==
    \/ \E t \in Tasks : \E intent \in Intents : processPaymentIntent(t, intent)
    \/ \E a \in PolicyAgents : \E m \in BagToSet(bus) : handlePolicyCheck(a, m)

\* the payment agents take no step here: one configuration of them
PolicyInit ==
    /\ SwarmInit
    /\ maxPaymentAmount = [p \in PaymentAgents |-> MaxAmount]

PolicySpec == PolicyInit /\ [][PolicyNext]_vars

\* --------------------------------------------------- X402PaymentsAgent
\* what X402PaymentsAgent never touches
notAgentVars == <<gatewayVars, sideVars, swarmVars, clientVars, pagination>>

\* new X402PaymentsAgent({bridgeConfig}): the limits come from the
\* configuration, the chain from the protocol
AgentInit ==
    /\ GatewayAbsent
    /\ SwarmAbsent
    /\ ClientAbsent
    /\ PaginationAbsent
    /\ bridgeConfig \in [maxTransactionAmount : {MaxAmount - 1, MaxAmount},
                         trustedDomains : SUBSET {"shop.example", Wildcard}]
    /\ currentChain \in {"solana", "bitcoin"}
    /\ AgentStart

\* navigateAndDetectPayment: the PaymentRequirements built from the
\* extracted payment information
DetectedRequirements(hostname, paymentInfo) ==
    [network |-> IF paymentInfo.currency = "BTC" THEN "bitcoin-mainnet"
                 ELSE "solana-mainnet",
     maxAmountRequired |-> NumberToString(paymentInfo.amount),
     resource |-> IF paymentInfo.resourceId.given
                  THEN paymentInfo.resourceId.resource
                  ELSE Url(hostname)]

\* processPaymentFlow up to the return of navigateAndDetectPayment: no
\* payment is required (the flow succeeds), the navigation or the
\* extraction throws (the flow fails), or payment requirements are returned
navigateAndDetectPayment(hostname) ==
    /\ flow = "idle"
    /\ \/ /\ flow' = "done"
          /\ flowResult' = FlowResult(TRUE, FALSE)
          /\ UNCHANGED paymentRequirements
       \/ /\ flow' = "done"
          /\ flowResult' = FlowResult(FALSE, FALSE)
          /\ UNCHANGED paymentRequirements
       \/ \E paymentInfo \in PaymentInfos :
             /\ flow' = "detected"
             /\ paymentRequirements' =
                   DetectedRequirements(hostname, paymentInfo)
             /\ UNCHANGED flowResult
    /\ UNCHANGED <<bridgeConfig, currentChain, paid, verified, recorded>>
    /\ UNCHANGED notAgentVars

\* requiresBridging
requiresBridging(paymentReq) ==
    ~ \/ paymentReq.network = "solana-mainnet" /\ currentChain = "solana"
      \/ paymentReq.network = "bitcoin-mainnet" /\ currentChain = "bitcoin"

\* a policy check that looks at the amount only
verifyAgainstPolicy_AmountOnly(paymentReq) ==
    ~ (parseFloat(paymentReq.maxAmountRequired)
          > bridgeConfig.maxTransactionAmount)

\* verifyAgainstPolicy: the amount against maxTransactionAmount, then the
\* hostname of the resource against trustedDomains
verifyAgainstPolicy(paymentReq) ==
    LET amount == parseFloat(paymentReq.maxAmountRequired)
    IN  IF amount > bridgeConfig.maxTransactionAmount THEN FALSE
        ELSE IF ~paymentReq.resource.valid THEN FALSE
        ELSE IF /\ paymentReq.resource.hostname
                      \notin bridgeConfig.trustedDomains
                /\ Wildcard \notin bridgeConfig.trustedDomains THEN FALSE
        ELSE TRUE

\* processPayment within processPaymentFlow: a request that violates the
\* policy throws, any other is paid through the bridge or directly; the
\* payment call returns a signature or throws
processPayment_Agent ==
    /\ flow = "detected"
    /\ IF ~verifyAgainstPolicy(paymentRequirements)
       THEN /\ flow' = "done"
            /\ flowResult' = FlowResult(FALSE, FALSE)
            /\ UNCHANGED paid
       ELSE \/ /\ paid' = IF requiresBridging(paymentRequirements)
                          THEN "bridge" ELSE "direct"
               /\ flow' = "paid"
               /\ UNCHANGED flowResult
            \/ /\ flow' = "done"
               /\ flowResult' = FlowResult(FALSE, FALSE)
               /\ UNCHANGED paid
    /\ UNCHANGED <<bridgeConfig, currentChain, paymentRequirements, verified,
                   recorded>>
    /\ UNCHANGED notAgentVars

\* submitPaymentAndVerify: the resource is accessible or not, or the
\* navigation with the X-PAYMENT header throws (the flow fails)
submitPaymentAndVerify ==
    /\ flow = "paid"
    /\ \/ \E success \in BOOLEAN :
             /\ verified' = success
             /\ flow' = "submitted"
             /\ UNCHANGED flowResult
       \/ /\ flow' = "done"
          /\ flowResult' = FlowResult(FALSE, FALSE)
          /\ UNCHANGED verified
    /\ UNCHANGED <<bridgeConfig, currentChain, paymentRequirements, paid,
                   recorded>>
    /\ UNCHANGED notAgentVars

\* recordTransaction and the return of processPaymentFlow
recordTransaction ==
    /\ flow = "submitted"
    /\ recorded' = TRUE
    /\ flow' = "done"
    /\ flowResult' = FlowResult(verified, TRUE)
    /\ UNCHANGED <<bridgeConfig, currentChain, paymentRequirements, paid,
                   verified>>
    /\ UNCHANGED notAgentVars

AgentNext ==
    \/ \E hostname \in Hosts : navigateAndDetectPayment(hostname)
    \/ processPayment_Agent
    \/ submitPaymentAndVerify
    \/ recordTransaction

AgentSpec == AgentInit /\ [][AgentNext]_vars

\* ----------------------------------------------------- SolPay402Client
\* what SolPay402Client never touches
notClientVars == <<gatewayVars, sideVars, swarmVars, agentVars,
                   pagination>>

\* new SolPay402Client(connection, wallet, options)
ClientInit ==
    /\ GatewayAbsent
    /\ SwarmAbsent
    /\ AgentAbsent
    /\ PaginationAbsent
    /\ clientOptions \in
          {ClientOptions(autoApprove, maxPaymentOption, onPaymentRequest) :
              autoApprove \in BOOLEAN,
              maxPaymentOption \in MaxPaymentOptions,
              onPaymentRequest \in ApprovalCallbacks}
    /\ ClientStart

\* the fetch wrapper, first request: originalFetch(input, init) answers or
\* rejects
originalFetch ==
    /\ fetchPc = "idle"
    /\ sent' = Append(sent, FALSE)
    /\ \/ \E r \in Replies :
             /\ reply' = r
             /\ fetchPc' = "replied"
             /\ UNCHANGED fetchResult
       \/ /\ fetchPc' = "done"
          /\ fetchResult' = Threw
          /\ UNCHANGED reply
    /\ UNCHANGED <<clientOptions, paymentsCreated>>
    /\ UNCHANGED notClientVars

\* requestUserApproval: logs the request and resolves to true; it does not
\* read options.onPaymentRequest
requestUserApproval == TRUE

\* the fetch wrapper after the first response: a 402 with X-PAYMENT-REQUEST
\* is checked against maxPaymentAmount and, without autoApprove, put to
\* requestUserApproval; any other response is returned
HandlePaymentRequired ==
    /\ fetchPc = "replied"
    /\ IF reply.status = 402 /\ reply.hasRequest
       THEN IF ~reply.parses
            THEN fetchPc' = "done" /\ fetchResult' = Threw
            ELSE IF GreaterThan(reply.amount, clientOptions.maxPaymentAmount)
            THEN fetchPc' = "done" /\ fetchResult' = Threw
            ELSE IF ~clientOptions.autoApprove /\ ~requestUserApproval
            THEN fetchPc' = "done" /\ fetchResult' = Threw
            ELSE fetchPc' = "paying" /\ UNCHANGED fetchResult
       ELSE fetchPc' = "done" /\ fetchResult' = Returned(reply.status)
    /\ UNCHANGED <<clientOptions, reply, sent, paymentsCreated>>
    /\ UNCHANGED notClientVars

\* createPayment: the signed transaction and the payment header, or an
\* error of the wallet or the connection
createPayment ==
    /\ fetchPc = "paying"
    /\ \/ /\ paymentsCreated' = paymentsCreated + 1
          /\ fetchPc' = "retry"
          /\ UNCHANGED fetchResult
       \/ /\ fetchPc' = "done"
          /\ fetchResult' = Threw
          /\ UNCHANGED paymentsCreated
    /\ UNCHANGED <<clientOptions, reply, sent>>
    /\ UNCHANGED notClientVars

\* a retry that goes through the wrapper again: its response is handled
\* like the first one
RetryWithPayment_Wrapped ==
    /\ fetchPc = "retry"
    /\ sent' = Append(sent, TRUE)
    /\ \E r \in Replies :
          /\ reply' = r
          /\ fetchPc' = "replied"
    /\ UNCHANGED <<clientOptions, paymentsCreated, fetchResult>>
    /\ UNCHANGED notClientVars

\* the retry of the request with the X-PAYMENT header; its response is
\* returned as it is
RetryWithPayment ==
    /\ fetchPc = "retry"
    /\ sent' = Append(sent, TRUE)
    /\ fetchPc' = "done"
    /\ fetchResult' \in {Returned(200), Returned(402), Returned(500), Threw}
    /\ UNCHANGED <<clientOptions, reply, paymentsCreated>>
    /\ UNCHANGED notClientVars

ClientNext ==
    \/ originalFetch
    \/ HandlePaymentRequired
    \/ createPayment
    \/ RetryWithPayment

ClientSpec == ClientInit /\ [][ClientNext]_vars

\* ---------------------------------------------------------- usePagination
\* what usePagination never touches
notPaginationVars == <<gatewayVars, sideVars, swarmVars, agentVars, clientVars>>

\* usePagination({initialPageSize, totalItems}): page starts at the default
\* initialPage 1
PaginationInit ==
    /\ \E initialPageSize \in 1..MaxPageSize, totalItems \in 0..MaxTotal :
          pagination = [page |-> 1, pageSize |-> initialPageSize,
                        total |-> totalItems]
    /\ GatewayAbsent
    /\ SwarmAbsent
    /\ AgentAbsent
    /\ ClientAbsent

\* Math.ceil(total / pageSize), for a positive pageSize
totalPages ==
    (pagination.total + pagination.pageSize - 1) \div pagination.pageSize

hasNextPage == pagination.page < totalPages

hasPreviousPage == pagination.page > 1

nextPage ==
    /\ IF hasNextPage
       THEN pagination' = [pagination EXCEPT !.page = @ + 1]
       ELSE UNCHANGED pagination
    /\ UNCHANGED notPaginationVars

previousPage ==
    /\ IF hasPreviousPage
       THEN pagination' = [pagination EXCEPT !.page = @ - 1]
       ELSE UNCHANGED pagination
    /\ UNCHANGED notPaginationVars

goToPage(newPage) ==
    /\ IF newPage >= 1 /\ newPage <= totalPages
       THEN pagination' = [pagination EXCEPT !.page = newPage]
       ELSE UNCHANGED pagination
    /\ UNCHANGED notPaginationVars

\* setPageSize(newPageSize) and setPage(1)
changePageSize(newPageSize) ==
    /\ pagination' = [pagination EXCEPT !.pageSize = newPageSize, !.page = 1]
    /\ UNCHANGED notPaginationVars

\* setTotal(newTotal): page is left as it is
updateTotal(newTotal) ==
    /\ pagination' = [pagination EXCEPT !.total = newTotal]
    /\ UNCHANGED notPaginationVars

PaginationNext ==
    \/ nextPage
    \/ previousPage
    \/ \E newPage \in 0..(MaxTotal + 1) : goToPage(newPage)
    \/ \E newPageSize \in 1..MaxPageSize : changePageSize(newPageSize)
    \/ \E newTotal \in 0..MaxTotal : updateTotal(newTotal)

PaginationSpec == PaginationInit /\ [][PaginationNext]_vars

TypeOK ==
    /\ now \in Times
    /\ ledger \in [Transactions -> {"unseen", "pending", "ok", "err"}]
    /\ pc \in [Reqs -> {"await", "route", "fetch", "send", "confirm", "done"}]
    /\ isValid \in [Reqs -> {"none", "true", "false"}]
    /\ connected \in [Reqs -> BOOLEAN]
    /\ paymentAmount \in [Reqs -> RouteAmounts]
    /\ webhook \in [Reqs -> {"none", "sent", "received", "lost"}]

\* ================================================================ claims
\* a request that carries a parsed X402PaymentHeader
Paid(r) == pc[r] # "await" /\ header[r].present /\ header[r].json

\* the PaymentRequests (challenges) the server has sent
Challenges == {response[r] : r \in {q \in Reqs : response[q].kind = "challenge"}}

\* sendTransaction was called in the request's cycle
SettleInvoked(r) ==
    \/ pc[r] \in {"send", "confirm"}
    \/ paymentStatus[r].success
    \/ paymentStatus[r].error \in
          {"Transaction sending failed", "Transaction was not confirmed"}

\* the resource was delivered for the request
Delivered(r) == response[r].status = 200

\* C1: for one paymentId, all requests that obtain a receipt with
\* success=true obtain the same receipt (one settlement), however the
\* requests interleave.
C1_ExactlyOnceSettlement ==
    \A r1, r2 \in Reqs :
        (/\ paymentStatus[r1].success
         /\ paymentStatus[r2].success
         /\ paymentStatus[r1].paymentId = paymentStatus[r2].paymentId)
        => paymentStatus[r1].signature = paymentStatus[r2].signature

\* C2: once a paymentId is FULFILLED, a later request carrying it is
\* rejected by the verifier and goes no further (never VERIFIED, never
\* SETTLING).
C2_FulfilledNeverReverified ==
    [][\A r \in Reqs :
          (/\ pc[r] = "await"
           /\ pc'[r] # "await"
           /\ header'[r].json
           /\ \E q \in Reqs : Delivered(q)
                              /\ header[q].paymentId = header'[r].paymentId)
          => (pc'[r] = "done" /\ isValid'[r] = "false")]_vars

\* C3: sendTransaction is called in a request's cycle only after
\* verifyTransaction returned true in that cycle, and every transaction the
\* ledger has seen is that of a request whose verification returned true.
C3_NoSettlementWithoutVerification ==
    /\ \A r \in Reqs : SettleInvoked(r) => isValid[r] = "true"
    /\ \A tx \in Transactions :
          ledger[tx] # "unseen"
          => \E r \in Reqs : header[r].transaction = tx /\ isValid[r] = "true"

\* C3 witness: one request settled after a valid verification while another
\* failed verification and ended without settlement
C3_Witness ==
    \E r1, r2 \in Reqs :
        /\ paymentStatus[r1].success /\ isValid[r1] = "true"
        /\ pc[r2] = "done" /\ isValid[r2] = "false"
        /\ ledger[header[r2].transaction] = "unseen"

C5_OnlyIssuedPaymentIds ==
    \A r \in Reqs :
        (Paid(r) /\ (SettleInvoked(r) \/ Delivered(r)))
        => \E c \in Challenges : c.paymentId = header[r].paymentId

\* C6: a payload received at or after the expiresAt of the challenge that
\* issued its paymentId is rejected by the verifier and never settled.
C6_ExpiredAlwaysRejected ==
    [][\A r \in Reqs :
          (/\ pc[r] = "await"
           /\ pc'[r] # "await"
           /\ header'[r].json
           /\ \E c \in Challenges : /\ c.paymentId = header'[r].paymentId
                                    /\ now >= c.expiresAt)
          => (pc'[r] = "done" /\ isValid'[r] # "true")]_vars

\* C7: a payload whose transaction transfers less than the required amount
\* is rejected by the verifier and never settled.
C7_AmountFloor ==
    \A r \in Reqs :
        (/\ Paid(r)
         /\ header[r].transaction.decodable
         /\ header[r].transaction.amount < DefaultPaymentAmount)
        => (pc[r] = "done" /\ isValid[r] = "false" /\ ~SettleInvoked(r))

\* C8 as stated: a payload whose transaction lacks the payer's valid
\* signature is rejected by the verifier (InvalidSignature) and is never
\* submitted.
C8_InvalidSignatureRejectedByVerifier ==
    \A r \in Reqs :
        (Paid(r) /\ header[r].transaction.decodable
                 /\ ~header[r].transaction.signed)
        => /\ pc[r] = "done"
           /\ isValid[r] = "false"
           /\ ledger[header[r].transaction] = "unseen"

\* C8 as amended: a payload whose transaction lacks the payer's valid
\* signature is never submitted to the ledger and its request ends with
\* success=false and a 402; when verifyTransaction passes it, the rejection
\* is the failure of sendTransaction.
C8_UnsignedNeverSubmitted ==
    \A r \in Reqs :
        (Paid(r) /\ header[r].transaction.decodable
                 /\ ~header[r].transaction.signed)
        => /\ pc[r] = "done"
           /\ paymentStatus[r].returned
           /\ ~paymentStatus[r].success
           /\ response[r].status = 402
           /\ ledger[header[r].transaction] = "unseen"
           /\ isValid[r] = "true"
              => paymentStatus[r].error = "Transaction sending failed"

\* C8 witness: an unsigned transfer to the merchant passed verifyTransaction
\* and was rejected when sendTransaction serialized it
C8_Witness ==
    \E r \in Reqs :
        /\ Paid(r)
        /\ ~header[r].transaction.signed
        /\ isValid[r] = "true"
        /\ paymentStatus[r].error = "Transaction sending failed"
        /\ response[r].status = 402

\* C9: a paymentId is marked consumed exactly if a receipt with
\* success=true exists for it.
C9_ConsumedIffReceipt ==
    \A p \in PaymentIds :
        hasConsumed(p)
        <=> \E r \in Reqs : /\ paymentStatus[r].success
                            /\ paymentStatus[r].paymentId = p

\* C10: a settlement that timed out or whose transaction the ledger
\* rejected returns success=false, and its paymentId is not marked consumed.
C10_FailedSettlementNotConsumed ==
    \A r \in Reqs :
        (/\ paymentStatus[r].returned
         /\ SettleInvoked(r)
         /\ \/ paymentStatus[r].error = "Transaction was not confirmed"
            \/ ledger[header[r].transaction] = "err")
        => (~paymentStatus[r].success /\ ~hasConsumed(header[r].paymentId))

\* C11: the challenges issued carry pairwise distinct paymentIds.
C11_ChallengeIdsDistinct ==
    \A r1, r2 \in Reqs :
        (/\ r1 # r2
         /\ response[r1].kind = "challenge"
         /\ response[r2].kind = "challenge")
        => response[r1].paymentId # response[r2].paymentId

\* C12: a paid request that verifyAndSettlePayment rejected is answered
\* with a fresh challenge: the answer carries a paymentId other than the
\* rejected one, which no other challenge carries.
C12_RejectionIssuesFreshChallenge ==
    \A r \in Reqs :
        (paymentStatus[r].returned /\ ~paymentStatus[r].success)
        => /\ response[r].status = 402
           /\ response[r].paymentId # header[r].paymentId
           /\ \A q \in Reqs \ {r} :
                 response[q].kind = "challenge"
                 => response[q].paymentId # response[r].paymentId

\* C13: a request without payment header ends with a 402 challenge whose
\* paymentId no other challenge carries; nothing was verified or settled
\* for it and the resource was not delivered.
C13_NoHeaderEndsWithFreshChallenge ==
    \A r \in Reqs :
        (pc[r] \notin {"await", "route"} /\ ~header[r].present)
        => /\ pc[r] = "done"
           /\ response[r].status = 402
           /\ response[r].kind = "challenge"
           /\ isValid[r] = "none"
           /\ ~SettleInvoked(r)
           /\ ~Delivered(r)
           /\ \A q \in Reqs \ {r} :
                 response[q].kind = "challenge"
                 => response[q].paymentId # response[r].paymentId

\* C13 without the freshness of the paymentId
C13_NoHeaderEndsCycle ==
    \A r \in Reqs :
        (pc[r] \notin {"await", "route"} /\ ~header[r].present)
        => /\ pc[r] = "done"
           /\ response[r].status = 402
           /\ response[r].kind = "challenge"
           /\ isValid[r] = "none"
           /\ ~SettleInvoked(r)
           /\ ~Delivered(r)

\* the payload C14 is about: the paymentId of an issued challenge, the
\* required network and scheme, and a signed token transfer of the required
\* amount to the merchant
ValidPayment(r) ==
    /\ Paid(r)
    /\ ~header[r].isNull
    /\ \E c \in Challenges : c.paymentId = header[r].paymentId
    /\ header[r].network = RequiredNetwork
    /\ header[r].scheme = RequiredScheme
    /\ header[r].recipient = Merchant
    /\ header[r].transaction = ExactTransfer
    /\ ~hasConsumed(header[r].paymentId)

HandlerStep(r) ==
    \/ \E h \in Headers \cup {NoHeader} : RouteHandler(r, h)
    \/ RequestWithoutPayment(r)
    \/ \E h \in Headers : RequestWithPayment(r, h)
    \/ SendRawTransaction(r)
    \/ ConfirmTransaction(r)

\* C15: no request is left unanswered by the handler chain: a request that
\* has no response yet has a step of the chain left to take.
C15_EveryRequestAnswered ==
    \A r \in Reqs : response[r] = NoResponse => ENABLED HandlerStep(r)

\* the number of the first of the six checks of C16 that the payload hdr
\* fails in the current state, 0 when it passes all of them: 1 paymentId of
\* an issued challenge, 2 not expired, 3 network and scheme, 4 transfer of
\* the required amount to the merchant, 5 signature, 6 not consumed
FirstFailingCheck(hdr) ==
    LET issued == {c \in Challenges : c.paymentId = hdr.paymentId}
        tx == hdr.transaction
    IN  IF issued = {} THEN 1
        ELSE IF \A c \in issued : now >= c.expiresAt THEN 2
        ELSE IF hdr.network # RequiredNetwork \/ hdr.scheme # RequiredScheme
        THEN 3
        ELSE IF ~(/\ tx.decodable
                  /\ tx.programId = TOKEN_PROGRAM_ID
                  /\ tx.to = Merchant
                  /\ tx.amount >= DefaultPaymentAmount) THEN 4
        ELSE IF ~tx.signed THEN 5
        ELSE IF \E q \in Reqs : /\ paymentStatus[q].success
                                /\ paymentStatus[q].paymentId = hdr.paymentId
        THEN 6
        ELSE 0

\* the check that the error of a PaymentStatus returned before the
\* transaction was sent stands for, 0 for no error
ReportedCheck(error) ==
    CASE error = "" -> 0
      [] error \in {"Invalid transaction encoding", "Invalid transaction"} -> 4
      [] error = "Transaction sending failed" -> 5
      [] OTHER -> 7

\* C16: when a payload is verified, the reason given for it is that of the
\* first check it fails in the order paymentId, expiry, network/scheme,
\* transfer, signature, replay, and none when it passes all six.
C16_EarliestFailingCheckReported ==
    [][\A r \in Reqs :
          (/\ pc[r] = "await"
           /\ pc'[r] # "await"
           /\ header'[r].present
           /\ header'[r].json)
          => ReportedCheck(paymentStatus'[r].error)
                = FirstFailingCheck(header'[r])]_vars

\* C17: a payload passes verification only when its network is the
\* required network and its scheme equals the required network; any other
\* payload is rejected and not sent for settlement.
C17_NetworkAndSchemeChecked ==
    \A r \in Reqs :
        (Paid(r) /\ ~header[r].isNull
                 /\ (isValid[r] = "true" \/ SettleInvoked(r)))
        => /\ header[r].network = RequiredNetwork
           /\ header[r].scheme = RequiredNetwork

\* request r's payment is handed to a verifier in this step
VerifyCalled(r) ==
    /\ pc[r] = "await"
    /\ pc'[r] # "await"
    /\ header'[r].present
    /\ \/ header'[r].json /\ ~header'[r].isNull
       \/ header'[r].scheme = SolanaSignature

\* a verification step leaves the ledger and what the other requests got
\* unchanged
VerifyFrame(r) ==
    /\ ledger' = ledger
    /\ \A q \in Reqs \ {r} : /\ response'[q] = response[q]
                             /\ paymentStatus'[q] = paymentStatus[q]
                             /\ isValid'[q] = isValid[q]

\* C18 (as stated): verification is local: it ends within the step that
\* receives the payment, without a call to the ledger, and leaves the
\* ledger and the other requests' records unchanged.
C18_VerificationIsLocal ==
    [][\A r \in Reqs :
          VerifyCalled(r)
          => (pc'[r] # "fetch" /\ isValid'[r] # "none" /\ VerifyFrame(r))]_vars

\* C18 (amended): verifyTransaction is local, it ends within the step that
\* receives the x-payment header; verifyPayment waits for getTransaction;
\* neither changes the ledger or the other requests' records.
C18_VerifyTransactionIsLocal ==
    [][\A r \in Reqs :
          /\ VerifyCalled(r)
             => /\ VerifyFrame(r)
                /\ header'[r].scheme # SolanaSignature
                   => (pc'[r] # "fetch" /\ (header'[r].transaction.decodable
                                            => isValid'[r] # "none"))
          /\ (pc[r] = "fetch" /\ pc'[r] # "fetch") => VerifyFrame(r)]_vars

\* C18 witness: verifyTransaction has passed a payment whose transaction the
\* ledger has not seen, and verifyPayment has passed one the ledger holds
C18_Witness ==
    \E r, q \in Reqs :
        /\ header[r].json /\ pc[r] = "send" /\ isValid[r] = "true"
        /\ ledger[header[r].transaction] = "unseen"
        /\ header[q].scheme = SolanaSignature /\ pc[q] = "done"
        /\ isValid[q] = "true"
        /\ ledger[header[q].transaction] = "ok"

Malformed(h) == h.present /\ (~h.json \/ h.isNull \/ h.paymentId = Undefined)

\* C20: a request whose header is malformed is refused by the decoder, with
\* the answer for an invalid header, and is never verified or settled.
C20_MalformedNeverVerified ==
    \A r \in Reqs :
        (pc[r] # "await" /\ Malformed(header[r]))
        => /\ pc[r] = "done"
           /\ response[r].kind = "invalid-header"
           /\ isValid[r] = "none"
           /\ ~SettleInvoked(r)
           /\ ~Delivered(r)

\* the request gave up waiting for the confirmation of its transaction
TimedOut(r) ==
    /\ pc[r] = "done"
    /\ paymentStatus[r].error = "Transaction was not confirmed"

C22_ReplayAfterDisconnectRejected ==
    [][\A q \in Reqs :
          (/\ pc[q] = "await"
           /\ pc'[q] # "await"
           /\ header'[q].json
           /\ \E r \in Reqs :
                 /\ ~connected[r]
                 /\ paymentStatus[r].success
                 /\ paymentStatus[r].paymentId = header'[q].paymentId)
          => (pc'[q] = "done" /\ isValid'[q] # "true")]_vars

\* the settlement of a disconnected client runs to its end: its request has
\* a step to take until it is done, and a confirmed transaction gives it
\* the PaymentStatus of a success
DisconnectedSettlementCompletes ==
    \A r \in Reqs :
        ~connected[r]
        => /\ pc[r] = "send" => ENABLED SendRawTransaction(r)
           /\ pc[r] = "confirm" => ENABLED ConfirmTransaction(r)
           /\ (pc[r] = "done" /\ ~paymentStatus[r].success)
              => paymentStatus[r].error \in {"Transaction sending failed",
                                             "Transaction was not confirmed"}

Unpaid(r) == pc[r] = "done" /\ ~header[r].present

\* C25 (as stated): a request for a resource for which no amount is set
\* gets no challenge and no paymentId.
C25_NoChallengeWithoutPrice ==
    \A r \in Reqs :
        (Unpaid(r) /\ paymentAmount[r] = 0)
        => /\ response[r].kind # "challenge"
           /\ response[r].paymentId = ""

\* C25 (amended): every request without payment header gets a challenge
\* with a paymentId; its amount is the amount set for the request, and the
\* default amount when none is set.
C25_DefaultAmountChallenge ==
    \A r \in Reqs :
        Unpaid(r)
        => /\ response[r].status = 402
           /\ response[r].kind = "challenge"
           /\ response[r].paymentId # ""
           /\ response[r].amount > 0
           /\ paymentAmount[r] # 0 => response[r].amount = paymentAmount[r]
           /\ paymentAmount[r] = 0
              => response[r].amount = DefaultPaymentAmount

\* C25 witness: one request with no amount set was challenged for the
\* default amount, another for the amount set for it
C25_Witness ==
    \E r, q \in Reqs :
        /\ Unpaid(r) /\ paymentAmount[r] = 0
        /\ response[r].amount = DefaultPaymentAmount
        /\ Unpaid(q) /\ paymentAmount[q] = DefaultPaymentAmount - 1
        /\ response[q].amount = DefaultPaymentAmount - 1

\* C26: a payload for a consumed paymentId that arrives after the expiresAt
\* of its challenge plus the safety margin, when the guard's entry may have
\* been collected, is rejected at verification and gets no resource.
C26_ConsumedStaysConsumedAfterCollection ==
    [][\A q \in LateReqs :
          (/\ pc[q] = "await"
           /\ pc'[q] # "await"
           /\ header'[q].json
           /\ \E c \in LateReqs :
                 /\ response[c].kind = "challenge"
                 /\ response[c].paymentId = header'[q].paymentId
                 /\ now >= response[c].expiresAt + SafetyMargin
           /\ \E r \in LateReqs :
                 /\ paymentStatus[r].success
                 /\ paymentStatus[r].paymentId = header'[q].paymentId)
          => (pc'[q] = "done" /\ isValid'[q] # "true")]_vars

\* ------------------------------------------------------------------ C27
\* the reasons a PolicyAgent gives for a rejection
RejectionReasons ==
    {"Amount exceeds token limit", "Transaction would exceed daily limit"}

\* a task result 'Policy rejected: <reason>'
PolicyRejected(result) ==
    /\ result.set
    /\ ~result.success
    /\ result.error \in {"Policy rejected: " \o reason :
                            reason \in RejectionReasons}

\* the payment.request messages of a task that are on the bus
PaymentRequests(b, t) ==
    {m \in BagToSet(b) : m.type = "payment.request" /\ m.taskId = t}

\* a payment.request of a task appears on the bus only in the step in which
\* the coordinator takes an approved policy.decision of that task
PaymentRequestOnlyOnApproval ==
    [][\A t \in Tasks :
          PaymentRequests(bus', t) \ PaymentRequests(bus, t) # {} =>
              \E m \in Waiting("policy.decision", Coordinator) :
                  /\ m.taskId = t
                  /\ m.approved
                  /\ CopiesIn(m, bus') < CopiesIn(m, bus)]_vars

\* C27: a task whose policy decision was a rejection (its result is 'Policy
\* rejected: <reason>') has no payment executed for it
C27_RejectedTaskNeverPaid ==
    \A t \in Tasks :
        PolicyRejected(taskResults[t]) \/ PolicyRejected(resolved[t]) =>
            executed[t] = 0

\* ------------------------------------------------------------------ C28
\* the policy agent a takes the policy.check m in this step
PolicyCheckTaken(a, m) ==
    /\ m \in Waiting("policy.check", a)
    /\ CopiesIn(m, bus') < CopiesIn(m, bus)

\* a policy.decision of the task is sent in this step with this verdict
DecisionSent(t, approved) ==
    \E d \in BagToSet(bus') :
        /\ d.type = "policy.decision"
        /\ d.taskId = t
        /\ d.approved = approved
        /\ CopiesIn(d, bus') > CopiesIn(d, bus)

ViolatesPolicy(paymentReq) ==
    \/ parseFloat(paymentReq.maxAmountRequired)
           > bridgeConfig.maxTransactionAmount
    \/ /\ paymentReq.resource.valid
       /\ paymentReq.resource.hostname \notin bridgeConfig.trustedDomains
       /\ Wildcard \notin bridgeConfig.trustedDomains

\* C29: X402PaymentsAgent pays (by bridge or directly) only for a detected
\* payment request that does not violate the policy, and a flow whose
\* request violates the policy ends unpaid with success = false
C29_NoPaymentAgainstPolicy ==
    /\ [](paymentRequirements # NoRequirements
             /\ ViolatesPolicy(paymentRequirements) =>
                 /\ paid = "none"
                 /\ flow = "done" =>
                       flowResult = FlowResult(FALSE, FALSE))
    /\ [][paid' # paid =>
             /\ flow = "detected"
             /\ ~ViolatesPolicy(paymentRequirements)]_vars

\* C29 witness: a flow for a resource of an untrusted host, with an amount
\* within the limit, has ended without payment and without success
C29_Witness ==
    /\ flow = "done"
    /\ paymentRequirements # NoRequirements
    /\ parseFloat(paymentRequirements.maxAmountRequired)
           <= bridgeConfig.maxTransactionAmount
    /\ paymentRequirements.resource.valid
    /\ paymentRequirements.resource.hostname \notin bridgeConfig.trustedDomains
    /\ Wildcard \notin bridgeConfig.trustedDomains
    /\ paid = "none"
    /\ ~flowResult.success

\* ------------------------------------------------------------------ C30
\* the 402 response asks for more than the maxPaymentAmount of the options
OverMaximum ==
    /\ reply.status = 402
    /\ reply.hasRequest
    /\ reply.parses
    /\ clientOptions.maxPaymentAmount.defined
    /\ reply.amount > clientOptions.maxPaymentAmount.value

\* C30: for a 402 whose payment request is over maxPaymentAmount the fetch
\* wrapper creates no payment, sends no request with X-PAYMENT and ends
\* with an error
C30_NoPaymentOverMaximum ==
    OverMaximum =>
        /\ paymentsCreated = 0
        /\ \A i \in 1..Len(sent) : ~sent[i]
        /\ fetchPc \in {"replied", "done"}
        /\ fetchPc = "done" => fetchResult = Threw

\* C30 witness: a call that met a payment request over the maximum has ended
C30_Witness ==
    /\ OverMaximum
    /\ fetchPc = "done"
    /\ fetchResult = Threw
    /\ sent = <<FALSE>>

\* ------------------------------------------------------------------ C31
\* C31: a client without autoApprove whose onPaymentRequest callback
\* answers false creates no payment and sends no request with X-PAYMENT
C31_DeclinedPaymentNeverMade ==
    (~clientOptions.autoApprove /\ clientOptions.onPaymentRequest = "declines")
        => /\ paymentsCreated = 0
           /\ \A i \in 1..Len(sent) : ~sent[i]

\* ------------------------------------------------------------------ C32
\* the gateway has submitted the transaction of the request and the ledger
\* has executed it: the payer is charged
Charged(r) ==
    /\ Paid(r)
    /\ \/ pc[r] = "confirm"
       \/ paymentStatus[r].success
       \/ TimedOut(r)
    /\ ledger[header[r].transaction] = "ok"

\* C32: for one paymentId the gateway brings at most one transaction onto
\* the ledger: requests that name the same paymentId and are charged are
\* charged by the same transaction
C32_OneTransactionPerPaymentId ==
    \A r, q \in Reqs :
        (/\ Charged(r)
         /\ Charged(q)
         /\ header[r].paymentId = header[q].paymentId)
        => header[r].transaction = header[q].transaction

\* ------------------------------------------------------------------ C33
\* C33: for each call of processPaymentIntent at most one payment is
\* executed
C33_AtMostOnePaymentPerIntent ==
    \A t \in Tasks : executed[t] <= 1

\* ------------------------------------------------------------------ C34
\* C34: once processPaymentIntent has resolved for a task, the task has no
\* entry in activeTasks and none in taskResults
C34_ResolvedTaskLeavesNoEntry ==
    \A t \in Tasks :
        resolved[t].set =>
            /\ activeTasks[t] = NoIntent
            /\ taskResults[t] = NoResult

\* ------------------------------------------------------------------ C35
\* C35: one call of the fetch wrapper sends at most two requests, the second
\* one with X-PAYMENT, and creates at most one payment; after the paid
\* retry the call is over, whatever the retry's response
C35_AtMostOneRetry ==
    /\ Len(sent) <= 2
    /\ paymentsCreated <= 1
    /\ Len(sent) = 2 =>
          /\ sent = <<FALSE, TRUE>>
          /\ paymentsCreated = 1
          /\ fetchPc = "done"
          /\ fetchResult \in {Returned(200), Returned(402), Returned(500), Threw}

\* C35 witness: the paid retry was answered with a 402 again and the call
\* returned that response after two requests and one payment
C35_Witness ==
    /\ fetchPc = "done"
    /\ fetchResult = Returned(402)
    /\ sent = <<FALSE, TRUE>>
    /\ paymentsCreated = 1

\* ------------------------------------------------------------------ C36
\* C36: when processPaymentFlow has returned after a payment was made,
\* recordTransaction was called for the payment and the result carries its
\* transaction signature
C36_EveryPaymentRecorded ==
    (flow = "done" /\ paid # "none") =>
        /\ recorded
        /\ flowResult.transactionSignature

\* ------------------------------------------------------------------ C37
\* C37: the X-PAYMENT-RESPONSE sent with a delivered resource names the
\* paymentId of the X-PAYMENT payload that was verified and settled for the
\* request
C37_ResponseNamesPaymentId ==
    \A r \in Reqs :
        (Delivered(r) /\ response[r].kind = "resource" /\ header[r].present) =>
            response[r].paymentId = header[r].paymentId


\* ------------------------------------------------------------------ C38
\* C38: page is at least 1 and, whenever there is at least one page, at
\* most totalPages
C38_PageWithinRange ==
    /\ pagination.page >= 1
    /\ totalPages >= 1 => pagination.page <= totalPages

====
